---- MODULE Spec2Model ----
(***************************************************************************)
(* A model of pynamodb/connection/base.py: the MetaTable wrapper around a  *)
(* table's metadata and the Connection that caches MetaTables per table    *)
(* name, shapes one request per operation and calls the transport.         *)
(*                                                                         *)
(* Python values are modelled as follows.  An optional value is a tuple:   *)
(* None is << >> and a supplied value v is <<v>>.  A dict is a function    *)
(* (a record when its keys are fixed); the keyword arguments of a request  *)
(* carry the pythonic() names of the wire keys.  A raised exception is a   *)
(* record [type, msg, allowed].  The transport's answer to a call is a     *)
(* record [status, data] chosen nondeterministically by the environment.   *)
(* Each operation is one action that runs a whole invocation; the steps   *)
(* of get_meta_table are also actions of their own, taken by concurrent   *)
(* callers in any interleaving.                                           *)
(***************************************************************************)
EXTENDS Integers, Sequences, FiniteSets, TLC

VARIABLES
    _tables,    \* Connection._tables: table name -> MetaTable (a dict)
    calls,      \* the transport calls of the invocation that ran last
    last,       \* the invocation that ran last: operation, arguments, outcome
    meta,       \* a MetaTable object held by a caller (MetaTable.__init__)
    threads     \* the concurrent callers of get_meta_table, each at its step

vars == <<_tables, calls, last, meta, threads>>

----------------------------------------------------------------------------
(* Bounds of the model *)

\* longest key_schema list handed to create_table / held by a MetaTable
MaxKeySchema == 2
\* longest put_items / delete_items list handed to batch_write_item
MaxItems == 2
\* most entries of the attribute_updates dict handed to update_item
MaxUpdates == 1
\* number of callers that run get_meta_table concurrently on one connection
MaxCallers == 2
\* longest value list of a key condition of query / a filter entry of scan
MaxValues == 2

----------------------------------------------------------------------------
(* Python values *)

None == << >>
Some(v) == <<v>>

\* bool(x) of an optional argument: None is falsy, and so are 0, "" and
\* the empty list or dict
TruthyInt(o) == o # None /\ o[1] # 0
TruthyStr(o) == o # None /\ o[1] # ""
TruthySeq(o) == o # None /\ o[1] # << >>

Min(S) == CHOOSE x \in S : \A y \in S : x <= y
Max(S) == CHOOSE x \in S : \A y \in S : x >= y

\* the elements of list q at the positions P, in list order
RECURSIVE Pick(_, _)
Pick(q, P) ==
    IF P = {} THEN << >> ELSE <<q[Min(P)]>> \o Pick(q, P \ {Min(P)})

Err(type, msg, allowed) == [type |-> type, msg |-> msg, allowed |-> allowed]

\* str.upper() on the strings the model hands to it
Upper(s) ==
    CASE s = "hash" -> "HASH"
      [] s = "range" -> "RANGE"
      [] s = "None" -> "NONE"
      [] s = "all_old" -> "ALL_OLD"
      [] s = "bogus" -> "BOGUS"
      [] s = "total" -> "TOTAL"
      [] s = "size" -> "SIZE"
      [] s = "count" -> "COUNT"
      [] OTHER -> s

\* the code points of the strings the model compares
Codes(s) ==
    CASE s = "HASH" -> <<72, 65, 83, 72>>
      [] s = "RANGE" -> <<82, 65, 78, 71, 69>>
      [] s = "NONE" -> <<78, 79, 78, 69>>
      [] s = "hash" -> <<104, 97, 115, 104>>
      [] s = "range" -> <<114, 97, 110, 103, 101>>

\* a < b on Python strings: lexicographic on code points, a proper prefix
\* is smaller
StrLess(a, b) ==
    LET x == Codes(a)
        y == Codes(b)
        diff == {i \in 1..Min({Len(x), Len(y)}) : x[i] # y[i]}
    IN IF diff = {} THEN Len(x) < Len(y) ELSE x[Min(diff)] < y[Min(diff)]

----------------------------------------------------------------------------
(* pynamodb.constants and pynamodb.types *)

HASH == "HASH"
RANGE == "RANGE"
HTTP_OK == 200
HTTP_BAD_REQUEST == 400
DESCRIBE_TABLE == "DescribeTable"
CREATE_TABLE == "CreateTable"
UPDATE_TABLE == "UpdateTable"
UPDATE_ITEM == "UpdateItem"
DELETE_ITEM == "DeleteItem"
PUT_ITEM == "PutItem"
BATCH_WRITE_ITEM == "BatchWriteItem"
ITEM == "Item"
KEY == "Key"
PUT_REQUEST == "PutRequest"
DELETE_REQUEST == "DeleteRequest"
EXISTS == "Exists"
VALUE == "Value"
RETURN_VALUES == "ReturnValues"
RETURN_CONSUMED_CAPACITY == "ReturnConsumedCapacity"
RETURN_ITEM_COLL_METRICS == "ReturnItemCollectionMetrics"
ATTR_UPDATES == "AttributeUpdates"
RETURN_VALUES_VALUES == {"NONE", "ALL_OLD", "UPDATED_OLD", "ALL_NEW", "UPDATED_NEW"}
RETURN_CONSUMED_CAPACITY_VALUES == {"INDEXES", "TOTAL", "NONE"}
RETURN_ITEM_COLL_METRICS_VALUES == {"SIZE", "NONE"}
ATTR_UPDATE_ACTIONS == {"PUT", "ADD", "DELETE"}
DELETE_TABLE == "DeleteTable"
LIST_TABLES == "ListTables"
GET_ITEM == "GetItem"
BATCH_GET_ITEM == "BatchGetItem"
QUERY == "Query"
SCAN == "Scan"
KEYS == "Keys"
EQ == "EQ"
SELECT == "Select"
COMPARISON_OPERATOR == "ComparisonOperator"
ATTR_VALUE_LIST == "AttributeValueList"
EXCLUSIVE_START_KEY == "ExclusiveStartKey"
SELECT_VALUES == {"ALL_ATTRIBUTES", "ALL_PROJECTED_ATTRIBUTES", "SPECIFIC_ATTRIBUTES", "COUNT"}
COMPARISON_OPERATOR_VALUES == {"EQ", "LE", "LT", "GE", "GT", "BEGINS_WITH", "BETWEEN"}
\* the operators of a scan filter: a narrower set than that of a query
SCAN_FILTER_VALUES == {"EQ", "LE", "LT", "GE", "GT", "BETWEEN"}

\* pynamodb.connection.util.pythonic on the wire keys the model passes to it
pythonic(name) ==
    CASE name = ITEM -> "item"
      [] name = KEY -> "key"
      [] OTHER -> name

----------------------------------------------------------------------------
(* The transport *)

\* status codes the transport answers with
Statuses == {200, 201, 400, 500}

\* requests' Response.ok
ok(response) == response.status < 400

\* one call of operation.call(self.endpoint, **operation_kwargs)
Call(operation, kwargs) == [operation |-> operation, kwargs |-> kwargs]

----------------------------------------------------------------------------
(* MetaTable *)

\* MetaTable.__init__
MetaTable(data) == [data |-> data, _range_keyname |-> None, _hash_keyname |-> None]

\* MetaTable.range_keyname: the loop has no break, the last RANGE entry wins
range_keyname(self) ==
    LET ks == self.data.KeySchema
        hits == {i \in DOMAIN ks : ks[i].KeyType = RANGE}
        memo == IF self._range_keyname = None /\ hits # {}
                THEN Some(ks[Max(hits)].AttributeName)
                ELSE self._range_keyname
    IN [ret |-> memo, self |-> [self EXCEPT !._range_keyname = memo]]

\* MetaTable.hash_keyname: memoizes the first HASH entry, returns the memo
hash_keyname(self) ==
    LET ks == self.data.KeySchema
        hits == {i \in DOMAIN ks : ks[i].KeyType = HASH}
        memo == IF self._hash_keyname = None /\ hits # {}
                THEN Some(ks[Min(hits)].AttributeName)
                ELSE self._hash_keyname
    IN [ret |-> memo, self |-> [self EXCEPT !._hash_keyname = memo]]

\* MetaTable.get_attribute_type; attribute_name is optional because the
\* callers pass hash_keyname / range_keyname, which may be None
get_attribute_type(self, attribute_name) ==
    LET defs == self.data.AttributeDefinitions
        hits == {i \in DOMAIN defs :
                    attribute_name # None /\ defs[i].AttributeName = attribute_name[1]}
    IN IF hits # {}
       THEN [exc |-> None, ret |-> defs[Min(hits)].AttributeType]
       ELSE [exc |-> Some(Err("ValueError", "No attribute",
                              {defs[i].AttributeName : i \in DOMAIN defs})),
             ret |-> "None"]

\* a dict key that may be None
KeyOf(name) == IF name = None THEN "None" ELSE name[1]

\* MetaTable.get_identifier_map, the range key part: r is the outcome of
\* self.range_keyname, h and ht those of the hash key name and its type
get_identifier_map_range(h, ht, r, hash_key, range_key, key) ==
    LET rt == get_attribute_type(r.self, r.ret)
        hmap == KeyOf(h.ret) :> (ht.ret :> hash_key)
    IN IF rt.exc # None
       THEN [exc |-> rt.exc, ret |-> << >>, self |-> r.self]
       ELSE [exc |-> None,
             ret |-> (pythonic(key) :>
                        ((KeyOf(r.ret) :> (rt.ret :> range_key[1])) @@ hmap)),
             self |-> r.self]

\* MetaTable.get_identifier_map, once the hash key name (h) and its type
\* (ht) have been looked up
get_identifier_map_hash(h, ht, hash_key, range_key, key) ==
    IF ht.exc # None
    THEN [exc |-> ht.exc, ret |-> << >>, self |-> h.self]
    ELSE IF ~TruthyStr(range_key)
    THEN [exc |-> None,
          ret |-> (pythonic(key) :> (KeyOf(h.ret) :> (ht.ret :> hash_key))),
          self |-> h.self]
    ELSE get_identifier_map_range(h, ht, range_keyname(h.self), hash_key, range_key, key)

\* MetaTable.get_identifier_map, h the outcome of self.hash_keyname
get_identifier_map_named(h, hash_key, range_key, key) ==
    get_identifier_map_hash(h, get_attribute_type(h.self, h.ret), hash_key, range_key, key)

\* MetaTable.get_identifier_map
get_identifier_map(self, hash_key, range_key, key) ==
    get_identifier_map_named(hash_keyname(self), hash_key, range_key, key)

\* MetaTable.get_item_attribute_map; attributes is the dict in iteration
\* order, each entry [key, tagged, type, value]: a tagged entry is the
\* caller's {type: value} mapping, an untagged one a raw value
get_item_attribute_map(self, attributes, item_key, pythonic_key) ==
    LET top == IF pythonic_key THEN pythonic(item_key) ELSE item_key
        typeOf(i) == get_attribute_type(self, Some(attributes[i].key))
        bad == {i \in DOMAIN attributes : ~attributes[i].tagged /\ typeOf(i).exc # None}
        keys == {attributes[i].key : i \in DOMAIN attributes}
        at(k) == Max({i \in DOMAIN attributes : attributes[i].key = k})
        enc(i) == IF attributes[i].tagged
                  THEN attributes[i].type :> attributes[i].value
                  ELSE typeOf(i).ret :> attributes[i].value
    IN IF bad # {}
       THEN [exc |-> typeOf(Min(bad)).exc, ret |-> << >>]
       ELSE [exc |-> None, ret |-> (top :> [k \in keys |-> enc(at(k))])]

\* MetaTable.get_expected_map; expected is the dict in iteration order,
\* each entry [key, has, value] with has the key its condition carries
get_expected_map(self, expected) ==
    LET typeOf(i) == get_attribute_type(self, Some(expected[i].key))
        bad == {i \in DOMAIN expected :
                    expected[i].has = VALUE /\ typeOf(i).exc # None}
        keys == {expected[i].key : i \in DOMAIN expected}
        at(k) == Max({i \in DOMAIN expected : expected[i].key = k})
        enc(i) == IF expected[i].has = EXISTS
                  THEN EXISTS :> expected[i].value
                  ELSE VALUE :> (typeOf(i).ret :> expected[i].value)
    IN IF bad # {}
       THEN [exc |-> typeOf(Min(bad)).exc, ret |-> << >>]
       ELSE [exc |-> None, ret |-> ("expected" :> [k \in keys |-> enc(at(k))])]

----------------------------------------------------------------------------
(* Connection: the metadata cache *)

\* the mutant of get_meta_table: the cache is never consulted
get_meta_table_nocache(tables, table_name, refresh, response) ==
    LET call == Call(DESCRIBE_TABLE, [table_name |-> table_name])
    IN IF ~ok(response)
       THEN IF response.status = HTTP_BAD_REQUEST
            THEN [exc |-> None, ret |-> None, tables |-> tables, calls |-> <<call>>]
            ELSE [exc |-> Some(Err("TableError", "Unable to describe table", {})),
                  ret |-> None, tables |-> tables, calls |-> <<call>>]
       ELSE LET stored == (table_name :> MetaTable(response.data)) @@ tables
            IN [exc |-> None, ret |-> Some(stored[table_name]),
                tables |-> stored, calls |-> <<call>>]

\* the mutant of get_meta_table: a fetch that fails drops the entry
get_meta_table_evicting(tables, table_name, refresh, response) ==
    LET call == Call(DESCRIBE_TABLE, [table_name |-> table_name])
        evicted == [u \in DOMAIN tables \ {table_name} |-> tables[u]]
    IN IF table_name \in DOMAIN tables /\ ~refresh
       THEN [exc |-> None, ret |-> Some(tables[table_name]),
             tables |-> tables, calls |-> << >>]
       ELSE IF ok(response)
       THEN [exc |-> None, ret |-> Some(MetaTable(response.data)),
             tables |-> (table_name :> MetaTable(response.data)) @@ tables,
             calls |-> <<call>>]
       ELSE IF response.status = HTTP_BAD_REQUEST
       THEN [exc |-> None, ret |-> None, tables |-> evicted, calls |-> <<call>>]
       ELSE [exc |-> Some(Err("TableError", "Unable to describe table", {})),
             ret |-> None, tables |-> evicted, calls |-> <<call>>]

\* Connection.get_meta_table; response is the transport's answer to the
\* DescribeTable call, should the call be made
get_meta_table(tables, table_name, refresh, response) ==
    IF table_name \notin DOMAIN tables \/ refresh
    THEN LET call == Call(DESCRIBE_TABLE, [table_name |-> table_name])
         IN IF ~ok(response)
            THEN IF response.status = HTTP_BAD_REQUEST
                 THEN [exc |-> None, ret |-> None, tables |-> tables, calls |-> <<call>>]
                 ELSE [exc |-> Some(Err("TableError", "Unable to describe table", {})),
                       ret |-> None, tables |-> tables, calls |-> <<call>>]
            ELSE LET stored == (table_name :> MetaTable(response.data)) @@ tables
                 IN [exc |-> None, ret |-> Some(stored[table_name]),
                     tables |-> stored, calls |-> << call >>]
    ELSE [exc |-> None, ret |-> Some(tables[table_name]),
          tables |-> tables, calls |-> << >>]

\* the mutant of describe_table: the refresh flag is not passed
describe_table_norefresh(tables, table_name, response) ==
    LET tbl == get_meta_table(tables, table_name, FALSE, response)
    IN IF tbl.exc # None
       THEN tbl
       ELSE IF tbl.ret # None
       THEN [tbl EXCEPT !.ret = Some(tbl.ret[1].data)]
       ELSE [tbl EXCEPT !.ret = None]

\* Connection.describe_table; a MetaTable object is always truthy
describe_table(tables, table_name, response) ==
    LET tbl == get_meta_table(tables, table_name, TRUE, response)
    IN IF tbl.exc # None
       THEN tbl
       ELSE IF tbl.ret # None
       THEN [tbl EXCEPT !.ret = Some(tbl.ret[1].data)]
       ELSE [tbl EXCEPT !.ret = None]

----------------------------------------------------------------------------
(* Connection: the maps common to several operations *)

\* what a handler hands back: the exception it raised or the value it
\* returned, the cache as it left it, the transport calls it made
Raised(exc, tables, made) == [exc |-> exc, ret |-> None, tables |-> tables, calls |-> made]
Returned(ret, tables, made) == [exc |-> None, ret |-> ret, tables |-> tables, calls |-> made]

\* an attribute looked up on None, the result of get_meta_table for a
\* table the store reports absent
NoneTypeError == Some(Err("AttributeError", "NoneType", {}))

\* Connection.get_identifier_map, mt the outcome of get_meta_table and im
\* that of the MetaTable's get_identifier_map, which memoizes the key names
\* in the cached MetaTable
Connection_get_identifier_map_of(table_name, mt, im) ==
    IF im.exc # None
    THEN Raised(im.exc, [mt.tables EXCEPT ![table_name] = im.self], mt.calls)
    ELSE Returned(im.ret, [mt.tables EXCEPT ![table_name] = im.self], mt.calls)

\* Connection.get_identifier_map, mt the outcome of get_meta_table
Connection_get_identifier_map_on(table_name, mt, hash_key, range_key, key) ==
    IF mt.exc # None THEN Raised(mt.exc, mt.tables, mt.calls)
    ELSE IF mt.ret = None THEN Raised(NoneTypeError, mt.tables, mt.calls)
    ELSE Connection_get_identifier_map_of(
             table_name, mt, get_identifier_map(mt.ret[1], hash_key, range_key, key))

\* Connection.get_identifier_map
Connection_get_identifier_map(tables, table_name, hash_key, range_key, key, describe) ==
    Connection_get_identifier_map_on(
        table_name, get_meta_table(tables, table_name, FALSE, describe),
        hash_key, range_key, key)

\* Connection.get_attribute_type
Connection_get_attribute_type(tables, table_name, attribute_name, describe) ==
    LET mt == get_meta_table(tables, table_name, FALSE, describe)
        at == get_attribute_type(mt.ret[1], Some(attribute_name))
    IN IF mt.exc # None THEN Raised(mt.exc, mt.tables, mt.calls)
       ELSE IF mt.ret = None THEN Raised(NoneTypeError, mt.tables, mt.calls)
       ELSE IF at.exc # None THEN Raised(at.exc, mt.tables, mt.calls)
       ELSE Returned(at.ret, mt.tables, mt.calls)

\* Connection.get_item_attribute_map
Connection_get_item_attribute_map(tables, table_name, attributes, item_key, pythonic_key, describe) ==
    LET mt == get_meta_table(tables, table_name, FALSE, describe)
        am == get_item_attribute_map(mt.ret[1], attributes, item_key, pythonic_key)
    IN IF mt.exc # None THEN Raised(mt.exc, mt.tables, mt.calls)
       ELSE IF mt.ret = None THEN Raised(NoneTypeError, mt.tables, mt.calls)
       ELSE IF am.exc # None THEN Raised(am.exc, mt.tables, mt.calls)
       ELSE Returned(am.ret, mt.tables, mt.calls)

\* Connection.get_expected_map
Connection_get_expected_map(tables, table_name, expected, describe) ==
    LET mt == get_meta_table(tables, table_name, FALSE, describe)
        em == get_expected_map(mt.ret[1], expected)
    IN IF mt.exc # None THEN Raised(mt.exc, mt.tables, mt.calls)
       ELSE IF mt.ret = None THEN Raised(NoneTypeError, mt.tables, mt.calls)
       ELSE IF em.exc # None THEN Raised(em.exc, mt.tables, mt.calls)
       ELSE Returned(em.ret, mt.tables, mt.calls)

\* Connection.get_consumed_capacity_map: the message names
\* RETURN_ITEM_COLL_METRICS and lists RETURN_CONSUMED_CAPACITY_VALUES
get_consumed_capacity_map(return_consumed_capacity) ==
    IF Upper(return_consumed_capacity) \notin RETURN_CONSUMED_CAPACITY_VALUES
    THEN [exc |-> Some(Err("ValueError", RETURN_ITEM_COLL_METRICS,
                           RETURN_CONSUMED_CAPACITY_VALUES)), ret |-> << >>]
    ELSE [exc |-> None,
          ret |-> ("return_consumed_capacity" :> Upper(return_consumed_capacity))]

\* Connection.get_return_values_map
get_return_values_map(return_values) ==
    IF Upper(return_values) \notin RETURN_VALUES_VALUES
    THEN [exc |-> Some(Err("ValueError", RETURN_VALUES, RETURN_VALUES_VALUES)),
          ret |-> << >>]
    ELSE [exc |-> None, ret |-> ("return_values" :> Upper(return_values))]

\* Connection.get_item_collection_map
get_item_collection_map(return_item_collection_metrics) ==
    IF Upper(return_item_collection_metrics) \notin RETURN_ITEM_COLL_METRICS_VALUES
    THEN [exc |-> Some(Err("ValueError", RETURN_ITEM_COLL_METRICS,
                           RETURN_ITEM_COLL_METRICS_VALUES)), ret |-> << >>]
    ELSE [exc |-> None,
          ret |-> ("return_item_collection_metrics" :>
                     Upper(return_item_collection_metrics))]

\* the three optional enumerated options, merged in the order given by
\* `order` (a handler's own order of its `if` statements); opts is
\* [return_values, return_consumed_capacity, return_item_collection_metrics]
OptionMap(name, opts) ==
    CASE name = "return_values" ->
            IF TruthyStr(opts.return_values)
            THEN get_return_values_map(opts.return_values[1])
            ELSE [exc |-> None, ret |-> << >>]
      [] name = "return_consumed_capacity" ->
            IF TruthyStr(opts.return_consumed_capacity)
            THEN get_consumed_capacity_map(opts.return_consumed_capacity[1])
            ELSE [exc |-> None, ret |-> << >>]
      [] name = "return_item_collection_metrics" ->
            IF TruthyStr(opts.return_item_collection_metrics)
            THEN get_item_collection_map(opts.return_item_collection_metrics[1])
            ELSE [exc |-> None, ret |-> << >>]

\* operation_kwargs.update(...) for each option of `order` in turn; the
\* first invalid one raises
OptionMaps(order, opts) ==
    LET bad == {i \in DOMAIN order : OptionMap(order[i], opts).exc # None}
        merged == [k \in {order[i] : i \in {j \in DOMAIN order :
                                               OptionMap(order[j], opts).ret # << >>}}
                     |-> OptionMap(k, opts).ret[k]]
    IN IF bad # {}
       THEN [exc |-> OptionMap(order[Min(bad)], opts).exc, ret |-> << >>]
       ELSE [exc |-> None, ret |-> merged]

----------------------------------------------------------------------------
(* Connection: the item operations *)

\* the mutant of Send: a request that is not answered ok is sent again
SendRetrying(operation, kwargs, response, error, msg, tables, made) ==
    IF ~ok(response)
    THEN Raised(Some(Err(error, msg, {})), tables,
                made \o <<Call(operation, kwargs), Call(operation, kwargs)>>)
    ELSE Returned(Some(response.data), tables, Append(made, Call(operation, kwargs)))

\* response, data = operation.call(...); a response that is not ok raises
\* the operation's error, an ok one returns data
Send(operation, kwargs, response, error, msg, tables, made) ==
    IF ~ok(response)
    THEN Raised(Some(Err(error, msg, {})), tables, Append(made, Call(operation, kwargs)))
    ELSE Returned(Some(response.data), tables, Append(made, Call(operation, kwargs)))

\* Connection.update_item from the expected map on; im is the outcome of
\* get_identifier_map.  attribute_updates is the dict in iteration order,
\* each entry [key, action, value]
update_item_with(im, em, om, table_name, attribute_updates, describe, response) ==
    LET ups == attribute_updates[1]
        typeOf(i) == Connection_get_attribute_type(em.tables, table_name, ups[i].key,
                                                   describe)
        entryExc(i) == IF typeOf(i).exc # None THEN typeOf(i).exc
                       ELSE IF ups[i].action \notin ATTR_UPDATE_ACTIONS
                       THEN Some(Err("ValueError", "Action", ATTR_UPDATE_ACTIONS))
                       ELSE None
        bad == {i \in DOMAIN ups : entryExc(i) # None}
        keys == {ups[i].key : i \in DOMAIN ups}
        at(k) == Max({i \in DOMAIN ups : ups[i].key = k})
        updates == [k \in keys |->
                      [Action |-> ups[at(k)].action,
                       Value |-> (typeOf(at(k)).ret :> ups[at(k)].value)]]
        made == im.calls \o em.calls
        kwargs == ("attribute_updates" :> updates) @@ om.ret @@ em.ret @@ im.ret
                  @@ ("table_name" :> table_name)
    IN IF em.exc # None THEN Raised(em.exc, em.tables, made)
       ELSE IF om.exc # None THEN Raised(om.exc, em.tables, made)
       ELSE IF ~TruthySeq(attribute_updates)
       THEN Raised(Some(Err("ValueError", ATTR_UPDATES, {})), em.tables, made)
       ELSE IF bad # {} THEN Raised(entryExc(Min(bad)), em.tables, made)
       ELSE Send(UPDATE_ITEM, kwargs, response, "UpdateError", "Failed to update item",
                 em.tables, made)

\* Connection.update_item after get_identifier_map, whose outcome is im.
\* Once it has returned, table_name is cached and the later metadata
\* lookups make no transport call
update_item_from(im, table_name, attribute_updates, expected, opts, describe, response) ==
    IF im.exc # None THEN im
    ELSE update_item_with(
             im,
             IF TruthySeq(expected)
             THEN Connection_get_expected_map(im.tables, table_name, expected[1], describe)
             ELSE Returned(<< >>, im.tables, << >>),
             OptionMaps(<<"return_consumed_capacity", "return_item_collection_metrics",
                          "return_values">>, opts),
             table_name, attribute_updates, describe, response)

\* Connection.update_item
update_item(tables, table_name, hash_key, range_key, attribute_updates, expected, opts, describe, response) ==
    update_item_from(
        Connection_get_identifier_map(tables, table_name, hash_key, range_key, KEY, describe),
        table_name, attribute_updates, expected, opts, describe, response)

\* Connection.delete_item from the expected map on
delete_item_with(im, em, om, table_name, response) ==
    IF em.exc # None THEN Raised(em.exc, em.tables, im.calls \o em.calls)
    ELSE IF om.exc # None THEN Raised(om.exc, em.tables, im.calls \o em.calls)
    ELSE Send(DELETE_ITEM, om.ret @@ em.ret @@ im.ret @@ ("table_name" :> table_name),
              response, "DeleteError", "Failed to delete item", em.tables,
              im.calls \o em.calls)

\* Connection.delete_item after get_identifier_map, whose outcome is im
delete_item_from(im, table_name, expected, opts, describe, response) ==
    IF im.exc # None THEN im
    ELSE delete_item_with(
             im,
             IF TruthySeq(expected)
             THEN Connection_get_expected_map(im.tables, table_name, expected[1], describe)
             ELSE Returned(<< >>, im.tables, << >>),
             OptionMaps(<<"return_values", "return_consumed_capacity",
                          "return_item_collection_metrics">>, opts),
             table_name, response)

\* Connection.delete_item
delete_item(tables, table_name, hash_key, range_key, expected, opts, describe, response) ==
    delete_item_from(
        Connection_get_identifier_map(tables, table_name, hash_key, range_key, KEY, describe),
        table_name, expected, opts, describe, response)

\* Connection.put_item from the option maps on; am is the outcome of
\* get_item_attribute_map
put_item_with(im, am, om, em, table_name, response) ==
    IF om.exc # None THEN Raised(om.exc, am.tables, im.calls \o am.calls)
    ELSE IF em.exc # None THEN Raised(em.exc, em.tables, im.calls \o am.calls \o em.calls)
    ELSE Send(PUT_ITEM,
              em.ret @@ om.ret @@ ("item" :> (am.ret.item @@ im.ret.item))
                  @@ ("table_name" :> table_name),
              response, "PutError", "Failed to put item", em.tables,
              im.calls \o am.calls \o em.calls)

\* Connection.put_item from the attributes on
put_item_attrs(im, am, table_name, expected, opts, describe, response) ==
    IF am.exc # None THEN Raised(am.exc, am.tables, im.calls \o am.calls)
    ELSE put_item_with(
             im, am,
             OptionMaps(<<"return_consumed_capacity", "return_item_collection_metrics",
                          "return_values">>, opts),
             IF TruthySeq(expected)
             THEN Connection_get_expected_map(am.tables, table_name, expected[1], describe)
             ELSE Returned(<< >>, am.tables, << >>),
             table_name, response)

\* Connection.put_item after get_identifier_map, whose outcome is im
put_item_from(im, table_name, attributes, expected, opts, describe, response) ==
    IF im.exc # None THEN im
    ELSE put_item_attrs(
             im,
             IF TruthySeq(attributes)
             THEN Connection_get_item_attribute_map(im.tables, table_name, attributes[1],
                                                    ITEM, TRUE, describe)
             ELSE Returned(("item" :> << >>), im.tables, << >>),
             table_name, expected, opts, describe, response)

\* Connection.put_item
put_item(tables, table_name, hash_key, range_key, attributes, expected, opts, describe, response) ==
    put_item_from(
        Connection_get_identifier_map(tables, table_name, hash_key, range_key, ITEM, describe),
        table_name, attributes, expected, opts, describe, response)

----------------------------------------------------------------------------
(* Connection: the batch operations *)

\* the mutant of RequestList: the put requests come first
PutsFirst(delete_items_list, put_items_list) == put_items_list \o delete_items_list

\* delete_items_list + put_items_list
RequestList(delete_items_list, put_items_list) == delete_items_list \o put_items_list

\* Connection.batch_write_item; an item is an attribute dict in iteration
\* order.  The put items are encoded first, then the delete items; the
\* first metadata lookup may ask the transport, and once it has returned
\* a MetaTable table_name is cached for the later ones
batch_write_item(tables, table_name, put_items, delete_items, opts, describe, response) ==
    LET om == OptionMaps(<<"return_consumed_capacity", "return_item_collection_metrics">>,
                         opts)
        puts == IF TruthySeq(put_items) THEN put_items[1] ELSE << >>
        deletes == IF TruthySeq(delete_items) THEN delete_items[1] ELSE << >>
        work == [i \in DOMAIN puts |-> [item |-> puts[i], item_key |-> ITEM]]
                \o [i \in DOMAIN deletes |-> [item |-> deletes[i], item_key |-> KEY]]
        first == Connection_get_item_attribute_map(tables, table_name, work[1].item,
                                                   work[1].item_key, FALSE, describe)
        enc(i) == IF i = 1 THEN first
                  ELSE Connection_get_item_attribute_map(first.tables, table_name,
                                                         work[i].item, work[i].item_key,
                                                         FALSE, describe)
        bad == {i \in DOMAIN work : enc(i).exc # None}
        put_items_list == [i \in DOMAIN puts |-> (PUT_REQUEST :> enc(i).ret)]
        delete_items_list == [i \in DOMAIN deletes |->
                                 (DELETE_REQUEST :> enc(Len(puts) + i).ret)]
        after == IF work = << >> THEN tables ELSE first.tables
        made == IF work = << >> THEN << >> ELSE first.calls
        kwargs == om.ret @@ ("request_items" :>
                     (table_name :> RequestList(delete_items_list, put_items_list)))
    IN IF put_items = None /\ delete_items = None
       THEN Raised(Some(Err("ValueError", "Either put_items or delete_items", {})),
                   tables, << >>)
       ELSE IF om.exc # None THEN Raised(om.exc, tables, << >>)
       ELSE IF bad # {} THEN Raised(enc(Min(bad)).exc, enc(Min(bad)).tables, made)
       ELSE Send(BATCH_WRITE_ITEM, kwargs, response, "PutError",
                 "Failed to batch write items", after, made)

----------------------------------------------------------------------------
(* Connection: the table operations *)

\* the mutant of SortedByKeyType: the list is left in the caller's order
Unsorted(list) == list

\* sorted(list, key=lambda x: x.get(KEY_TYPE)): a stable sort, so an entry
\* lands after the entries that are smaller or that are equal and were
\* before it
RECURSIVE SortedByKeyType(_)
SortedByKeyType(list) ==
    IF list = << >> THEN << >>
    ELSE LET least == Min({i \in DOMAIN list :
                            \A j \in DOMAIN list :
                                ~StrLess(list[j].KeyType, list[i].KeyType)})
         IN <<list[least]>> \o SortedByKeyType(Pick(list, DOMAIN list \ {least}))

\* the index entries of create_table: the caller's values under wire keys
IndexEntry(index, throughput) ==
    IF throughput
    THEN [IndexName |-> index.index_name, KeySchema |-> index.key_schema,
          Projection |-> index.projection,
          ProvisionedThroughput |-> index.provisioned_throughput]
    ELSE [IndexName |-> index.index_name, KeySchema |-> index.key_schema,
          Projection |-> index.projection]

\* Connection.create_table; key_schema entries are [attribute_name, key_type]
create_table(tables, table_name, attribute_definitions, key_schema, read_capacity_units, write_capacity_units, global_secondary_indexes, local_secondary_indexes, response) ==
    LET attrs_list == [i \in DOMAIN attribute_definitions[1] |->
                         [AttributeName |-> attribute_definitions[1][i].attribute_name,
                          AttributeType |-> attribute_definitions[1][i].attribute_type]]
        key_schema_list == [i \in DOMAIN key_schema[1] |->
                              [AttributeName |-> key_schema[1][i].attribute_name,
                               KeyType |-> Upper(key_schema[1][i].key_type)]]
        gsi == IF TruthySeq(global_secondary_indexes)
               THEN "global_secondary_indexes" :>
                        [i \in DOMAIN global_secondary_indexes[1] |->
                            IndexEntry(global_secondary_indexes[1][i], TRUE)]
               ELSE << >>
        lsi == IF TruthySeq(local_secondary_indexes)
               THEN "local_secondary_indexes" :>
                        [i \in DOMAIN local_secondary_indexes[1] |->
                            IndexEntry(local_secondary_indexes[1][i], FALSE)]
               ELSE << >>
        kwargs == lsi @@ ("key_schema" :> SortedByKeyType(key_schema_list)) @@ gsi
                  @@ ("attribute_definitions" :> attrs_list)
                  @@ [table_name |-> table_name,
                      provisioned_throughput |->
                          [ReadCapacityUnits |-> read_capacity_units,
                           WriteCapacityUnits |-> write_capacity_units]]
    IN IF attribute_definitions = None
       THEN Raised(Some(Err("ValueError", "attribute_definitions", {})), tables, << >>)
       ELSE IF key_schema = None
       THEN Raised(Some(Err("ValueError", "key_schema", {})), tables, << >>)
       ELSE IF response.status # HTTP_OK
       THEN Raised(Some(Err("TableError", "Failed to create table", {})), tables,
                   <<Call(CREATE_TABLE, kwargs)>>)
       ELSE Returned(Some(response.data), tables, <<Call(CREATE_TABLE, kwargs)>>)

\* Connection.update_table; it returns nothing
update_table(tables, table_name, read_capacity_units, write_capacity_units, global_secondary_index_updates, response) ==
    LET read == TruthyInt(read_capacity_units)
        write == TruthyInt(write_capacity_units)
        throughput == IF read /\ write
                      THEN "provisioned_throughput" :>
                               [ReadCapacityUnits |-> read_capacity_units[1],
                                WriteCapacityUnits |-> write_capacity_units[1]]
                      ELSE << >>
        updates == IF TruthySeq(global_secondary_index_updates)
                   THEN "global_secondary_index_updates" :>
                          [i \in DOMAIN global_secondary_index_updates[1] |->
                             [Update |->
                                [IndexName |-> global_secondary_index_updates[1][i].index_name,
                                 ProvisionedThroughput |->
                                    [ReadCapacityUnits |->
                                        global_secondary_index_updates[1][i].read_capacity_units,
                                     WriteCapacityUnits |->
                                        global_secondary_index_updates[1][i].write_capacity_units]]]]
                   ELSE << >>
        kwargs == updates @@ throughput @@ ("table_name" :> table_name)
    IN IF (read /\ ~write) \/ (write /\ ~read)
       THEN Raised(Some(Err("ValueError", "read_capacity_units and write_capacity_units",
                            {})), tables, << >>)
       ELSE IF ~ok(response)
       THEN Raised(Some(Err("TableError", "Failed to update table", {})), tables,
                   <<Call(UPDATE_TABLE, kwargs)>>)
       ELSE Returned(None, tables, <<Call(UPDATE_TABLE, kwargs)>>)

----------------------------------------------------------------------------
(* Connection: the read operations *)

\* MetaTable.get_exclusive_start_key_map, h the outcome of self.hash_keyname
\* and ht that of the lookup of its type
get_exclusive_start_key_map_hash(h, ht, exclusive_start_key) ==
    IF ht.exc # None
    THEN [exc |-> ht.exc, ret |-> << >>, self |-> h.self]
    ELSE [exc |-> None,
          ret |-> ("exclusive_start_key" :>
                      (KeyOf(h.ret) :> (ht.ret :> exclusive_start_key))),
          self |-> h.self]

\* MetaTable.get_exclusive_start_key_map, h the outcome of self.hash_keyname
get_exclusive_start_key_map_named(h, exclusive_start_key) ==
    get_exclusive_start_key_map_hash(h, get_attribute_type(h.self, h.ret),
                                     exclusive_start_key)

\* MetaTable.get_exclusive_start_key_map
get_exclusive_start_key_map(self, exclusive_start_key) ==
    get_exclusive_start_key_map_named(hash_keyname(self), exclusive_start_key)

\* Connection.get_exclusive_start_key_map, mt the outcome of get_meta_table
Connection_get_exclusive_start_key_map_on(table_name, mt, exclusive_start_key) ==
    IF mt.exc # None THEN Raised(mt.exc, mt.tables, mt.calls)
    ELSE IF mt.ret = None THEN Raised(NoneTypeError, mt.tables, mt.calls)
    ELSE Connection_get_identifier_map_of(
             table_name, mt, get_exclusive_start_key_map(mt.ret[1], exclusive_start_key))

\* Connection.get_exclusive_start_key_map
Connection_get_exclusive_start_key_map(tables, table_name, exclusive_start_key, describe) ==
    Connection_get_exclusive_start_key_map_on(
        table_name, get_meta_table(tables, table_name, FALSE, describe),
        exclusive_start_key)

\* [{attr_type: value for value in condition.get(ATTR_VALUE_LIST)}]: a
\* list of one dict, built by a dict comprehension whose key is attr_type
\* for every value, so that the last value is the one it keeps
AttributeValueList(attr_type, values) ==
    << IF values = << >> THEN << >> ELSE (attr_type :> values[Len(values)]) >>

\* the mutant of KeyConditions: the condition on hash_key is kept
BaseWins(base, conditions) == base @@ conditions

\* operation_kwargs[pythonic(KEY_CONDITIONS)][key] = ... for each caller
\* condition, on the dict that holds the condition on hash_key
KeyConditions(base, conditions) == conditions @@ base

\* the loop over key_conditions / scan_filter with the table's MetaTable
\* (self) at hand; conditions is the dict in iteration order, each entry
\* [key, operator, values]
ConditionMap(self, conditions, allowed) ==
    LET typeOf(i) == get_attribute_type(self, Some(conditions[i].key))
        entryExc(i) == IF typeOf(i).exc # None THEN typeOf(i).exc
                       ELSE IF conditions[i].operator \notin allowed
                       THEN Some(Err("ValueError", COMPARISON_OPERATOR, allowed))
                       ELSE None
        bad == {i \in DOMAIN conditions : entryExc(i) # None}
        keys == {conditions[i].key : i \in DOMAIN conditions}
        at(k) == Max({i \in DOMAIN conditions : conditions[i].key = k})
    IN IF bad # {}
       THEN [exc |-> entryExc(Min(bad)), ret |-> << >>]
       ELSE [exc |-> None,
             ret |-> [k \in keys |->
                        [AttributeValueList |->
                            AttributeValueList(typeOf(at(k)).ret, conditions[at(k)].values),
                         ComparisonOperator |-> conditions[at(k)].operator]]]

\* the options of query and scan that are copied when truthy (limit,
\* index_name, attributes_to_get of query) or when not None
\* (scan_index_forward, attributes_to_get of scan)
Copied(name, value, supplied) == IF supplied THEN name :> value[1] ELSE << >>

\* Connection.get_item
get_item_of(im, table_name, consistent_read, attributes_to_get, response) ==
    IF im.exc # None THEN im
    ELSE Send(GET_ITEM,
              im.ret @@ Copied("attributes_to_get", attributes_to_get, attributes_to_get # None)
                  @@ [consistent_read |-> consistent_read, table_name |-> table_name],
              response, "GetError", "Failed to get item", im.tables, im.calls)

get_item(tables, table_name, hash_key, range_key, consistent_read, attributes_to_get, describe, response) ==
    get_item_of(
        Connection_get_identifier_map(tables, table_name, hash_key, range_key, KEY, describe),
        table_name, consistent_read, attributes_to_get, response)

\* Connection.query from the loop over key_conditions on; hn is the hash
\* key name, ht the outcome of the lookup of its type, kw the keyword
\* arguments built so far
query_conditions(mt, hn, ht, kw, table_name, hash_key, key_conditions, response) ==
    LET base == KeyOf(hn.ret) :>
                   [AttributeValueList |-> <<(ht.ret :> hash_key)>>,
                    ComparisonOperator |-> EQ]
        cm == IF TruthySeq(key_conditions)
              THEN ConditionMap(hn.self, key_conditions[1], COMPARISON_OPERATOR_VALUES)
              ELSE [exc |-> None, ret |-> << >>]
        after == [mt.tables EXCEPT ![table_name] = hn.self]
    IN IF ht.exc # None THEN Raised(ht.exc, after, mt.calls)
       ELSE IF cm.exc # None THEN Raised(cm.exc, after, mt.calls)
       ELSE Send(QUERY, ("key_conditions" :> KeyConditions(base, cm.ret)) @@ kw,
                 response, "QueryError", "Failed to query items", after, mt.calls)

\* Connection.query from hash_keyname on; mt is the outcome of
\* get_meta_table, made are the transport calls made before it
query_keyed(mt, made, kw, table_name, hash_key, key_conditions, response) ==
    IF mt.exc # None THEN Raised(mt.exc, mt.tables, made \o mt.calls)
    ELSE IF mt.ret = None THEN Raised(NoneTypeError, mt.tables, made \o mt.calls)
    ELSE query_conditions(
             [mt EXCEPT !.calls = made \o mt.calls], hash_keyname(mt.ret[1]),
             get_attribute_type(mt.ret[1], hash_keyname(mt.ret[1]).ret),
             kw, table_name, hash_key, key_conditions, response)

\* Connection.query after the exclusive start key, whose map is sk; the
\* options are validated in the order of the code
query_from(sk, table_name, hash_key, opts, key_conditions, describe, response) ==
    LET cc == OptionMap("return_consumed_capacity", opts)
        kw == Copied("scan_index_forward", opts.scan_index_forward,
                     opts.scan_index_forward # None)
              @@ (IF TruthyStr(opts.select) THEN "select" :> Upper(opts.select[1])
                  ELSE << >>)
              @@ cc.ret
              @@ Copied("limit", opts.limit, TruthyInt(opts.limit))
              @@ Copied("index_name", opts.index_name, TruthyStr(opts.index_name))
              @@ sk.ret
              @@ (IF opts.consistent_read THEN "consistent_read" :> TRUE ELSE << >>)
              @@ Copied("attributes_to_get", opts.attributes_to_get,
                        TruthySeq(opts.attributes_to_get))
              @@ ("table_name" :> table_name)
    IN IF sk.exc # None THEN sk
       ELSE IF cc.exc # None THEN Raised(cc.exc, sk.tables, sk.calls)
       ELSE IF TruthyStr(opts.select) /\ Upper(opts.select[1]) \notin SELECT_VALUES
       THEN Raised(Some(Err("ValueError", SELECT, SELECT_VALUES)), sk.tables, sk.calls)
       ELSE query_keyed(get_meta_table(sk.tables, table_name, FALSE, describe), sk.calls,
                        kw, table_name, hash_key, key_conditions, response)

\* Connection.query
query(tables, table_name, hash_key, opts, key_conditions, describe, response) ==
    query_from(
        IF TruthyStr(opts.exclusive_start_key)
        THEN Connection_get_exclusive_start_key_map(tables, table_name,
                                                    opts.exclusive_start_key[1], describe)
        ELSE Returned(<< >>, tables, << >>),
        table_name, hash_key, opts, key_conditions, describe, response)

\* Connection.scan from the loop over scan_filter on; mt is the outcome of
\* the get_meta_table of the first get_attribute_type, after which the
\* table is cached
scan_filtered(mt, made, kw, table_name, scan_filter, response) ==
    IF mt.exc # None THEN Raised(mt.exc, mt.tables, made \o mt.calls)
    ELSE IF mt.ret = None THEN Raised(NoneTypeError, mt.tables, made \o mt.calls)
    ELSE LET cm == ConditionMap(mt.ret[1], scan_filter[1], SCAN_FILTER_VALUES)
         IN IF cm.exc # None THEN Raised(cm.exc, mt.tables, made \o mt.calls)
            ELSE Send(SCAN, ("scan_filter" :> cm.ret) @@ kw, response, "ScanError",
                      "Failed to scan table", mt.tables, made \o mt.calls)

\* Connection.scan after the exclusive start key, whose map is sk
scan_from(sk, cc, table_name, opts, scan_filter, describe, response) ==
    LET kw == Copied("total_segments", opts.total_segments, TruthyInt(opts.total_segments))
              @@ Copied("segment", opts.segment, TruthyInt(opts.segment))
              @@ sk.ret
              @@ cc.ret
              @@ Copied("limit", opts.limit, TruthyInt(opts.limit))
              @@ Copied("attributes_to_get", opts.attributes_to_get,
                        opts.attributes_to_get # None)
              @@ ("table_name" :> table_name)
    IN IF sk.exc # None THEN sk
       ELSE IF ~TruthySeq(scan_filter)
       THEN Send(SCAN, kw, response, "ScanError", "Failed to scan table",
                 sk.tables, sk.calls)
       ELSE scan_filtered(get_meta_table(sk.tables, table_name, FALSE, describe),
                          sk.calls, kw, table_name, scan_filter, response)

\* Connection.scan
scan(tables, table_name, opts, scan_filter, describe, response) ==
    LET cc == OptionMap("return_consumed_capacity", opts)
    IN IF cc.exc # None THEN Raised(cc.exc, tables, << >>)
       ELSE scan_from(
                IF TruthyStr(opts.exclusive_start_key)
                THEN Connection_get_exclusive_start_key_map(
                         tables, table_name, opts.exclusive_start_key[1], describe)
                ELSE Returned(<< >>, tables, << >>),
                cc, table_name, opts, scan_filter, describe, response)

\* Connection.batch_get_item; a key is an attribute dict in iteration
\* order.  The first metadata lookup may ask the transport, and once it
\* has returned a MetaTable table_name is cached for the later ones
batch_get_item(tables, table_name, keys, consistent_read, return_consumed_capacity, attributes_to_get, describe, response) ==
    LET cc == OptionMap("return_consumed_capacity",
                        [return_consumed_capacity |-> return_consumed_capacity])
        first == Connection_get_item_attribute_map(tables, table_name, keys[1], ITEM,
                                                   TRUE, describe)
        enc(i) == IF i = 1 THEN first
                  ELSE Connection_get_item_attribute_map(first.tables, table_name, keys[i],
                                                         ITEM, TRUE, describe)
        bad == {i \in DOMAIN keys : enc(i).exc # None}
        args_map == Copied("attributes_to_get", attributes_to_get, attributes_to_get # None)
                    @@ (IF consistent_read = Some(TRUE)
                        THEN "consistent_read" :> TRUE ELSE << >>)
        after == IF keys = << >> THEN tables ELSE first.tables
        made == IF keys = << >> THEN << >> ELSE first.calls
        kwargs == cc.ret @@ ("request_items" :>
                     (table_name :>
                        ((KEYS :> [i \in DOMAIN keys |-> enc(i).ret.item]) @@ args_map)))
    IN IF cc.exc # None THEN Raised(cc.exc, tables, << >>)
       ELSE IF bad # {} THEN Raised(enc(Min(bad)).exc, enc(Min(bad)).tables, made)
       ELSE Send(BATCH_GET_ITEM, kwargs, response, "GetError",
                 "Failed to batch get items", after, made)

\* Connection.delete_table; it returns nothing
delete_table(tables, table_name, response) ==
    IF response.status # HTTP_OK
    THEN Raised(Some(Err("TableError", "Failed to delete table", {})), tables,
                <<Call(DELETE_TABLE, [table_name |-> table_name])>>)
    ELSE Returned(None, tables, <<Call(DELETE_TABLE, [table_name |-> table_name])>>)

\* Connection.list_tables
list_tables(tables, exclusive_start_table_name, limit, response) ==
    Send(LIST_TABLES,
         Copied("limit", limit, TruthyInt(limit))
             @@ Copied("exclusive_start_table_name", exclusive_start_table_name,
                       TruthyStr(exclusive_start_table_name)),
         response, "TableError", "Unable to list tables", tables, << >>)

----------------------------------------------------------------------------
(* The environment: table names, metadata bodies, transport answers *)

TableNames == {"t1", "t2"}

KeyEntry(name, type) == [AttributeName |-> name, KeyType |-> type]
AttrDef(name, type) == [AttributeName |-> name, AttributeType |-> type]

\* the metadata bodies (data.get(TABLE_KEY)) DescribeTable answers with
Schemas ==
    { [KeySchema |-> <<KeyEntry("pk", HASH)>>,
       AttributeDefinitions |-> <<AttrDef("pk", "S")>>],
      [KeySchema |-> <<KeyEntry("pk", HASH), KeyEntry("sk", RANGE)>>,
       AttributeDefinitions |-> <<AttrDef("pk", "S"), AttrDef("sk", "N")>>] }

NoData == [KeySchema |-> << >>, AttributeDefinitions |-> << >>]

\* the answers to DescribeTable
DescribeResponses ==
    {[status |-> s, data |-> d] : s \in {c \in Statuses : c < 400}, d \in Schemas}
    \cup {[status |-> s, data |-> NoData] : s \in {c \in Statuses : c >= 400}}

\* the answers to every other operation
Responses == {[status |-> s, data |-> "data"] : s \in Statuses}

----------------------------------------------------------------------------
(* Actions: one per public operation, each a whole invocation *)

\* the answer to a call the handler never makes is immaterial: one stands
\* for all
AnyDescribe == CHOOSE d \in DescribeResponses : TRUE
AnyResponse == CHOOSE r \in Responses : TRUE
Sent(out, operation) == \E i \in DOMAIN out.calls : out.calls[i].operation = operation
Asked(out, describe, response, operation) ==
    /\ Sent(out, DESCRIBE_TABLE) \/ describe = AnyDescribe
    /\ Sent(out, operation) \/ response = AnyResponse

HashKeys == {"h"}
RangeKeys == {None, Some("r")}

\* return_values, return_consumed_capacity, return_item_collection_metrics
Options ==
    { [return_values |-> None, return_consumed_capacity |-> None,
       return_item_collection_metrics |-> None],
      [return_values |-> Some("all_old"), return_consumed_capacity |-> Some("total"),
       return_item_collection_metrics |-> Some("size")],
      [return_values |-> Some("BOGUS"), return_consumed_capacity |-> None,
       return_item_collection_metrics |-> None],
      [return_values |-> None, return_consumed_capacity |-> Some("BOGUS"),
       return_item_collection_metrics |-> None],
      [return_values |-> None, return_consumed_capacity |-> None,
       return_item_collection_metrics |-> Some("bogus")] }

Expecteds == {None, Some(<<[key |-> "pk", has |-> VALUE, value |-> "v"]>>)}

\* the lists of at most n entries of S whose keys differ
DistinctKeySeqs(S, n) ==
    {q \in UNION {[1..m -> S] : m \in 0..n} :
        \A i, j \in DOMAIN q : i # j => q[i].key # q[j].key}

UpdateEntries == {[key |-> k, action |-> a, value |-> "v"] :
                    k \in {"pk", "sk"}, a \in {"PUT", "BOGUS"}}
AttributeUpdates == {None} \cup {Some(q) : q \in DistinctKeySeqs(UpdateEntries, MaxUpdates)}

Attributes == {None, Some(<<[key |-> "sk", tagged |-> FALSE, type |-> "", value |-> "1"]>>),
               Some(<<[key |-> "x", tagged |-> TRUE, type |-> "S", value |-> "1"]>>)}

Idle == [op |-> "idle"]

\* an invocation runs to its end: its outcome is recorded, the cache and
\* the transport log are what the handler left
Invoke(op, args, out) ==
    /\ last.op = "idle"
    /\ last' = [op |-> op, args |-> args, cached |-> DOMAIN _tables,
                exc |-> out.exc, ret |-> out.ret]
    /\ _tables' = out.tables
    /\ calls' = out.calls
    /\ UNCHANGED <<meta, threads>>

\* the caller takes the outcome and is ready for its next call
Return ==
    /\ last.op # "idle"
    /\ last' = Idle
    /\ calls' = << >>
    /\ UNCHANGED <<_tables, meta, threads>>

GetMetaTable ==
    /\ last.op = "idle"
    /\ \E t \in TableNames, refresh \in BOOLEAN, d \in DescribeResponses :
           LET out == get_meta_table(_tables, t, refresh, d)
           IN /\ Sent(out, DESCRIBE_TABLE) \/ d = AnyDescribe
              /\ Invoke("get_meta_table",
                        [table_name |-> t, refresh |-> refresh, describe |-> d], out)

DescribeTable ==
    /\ last.op = "idle"
    /\ \E t \in TableNames, d \in DescribeResponses :
           Invoke("describe_table", [table_name |-> t, describe |-> d],
                  describe_table(_tables, t, d))

UpdateItem ==
    /\ last.op = "idle"
    /\ \E t \in TableNames, hk \in HashKeys, rk \in RangeKeys, au \in AttributeUpdates,
          ex \in Expecteds, o \in Options, d \in DescribeResponses, r \in Responses :
           LET out == update_item(_tables, t, hk, rk, au, ex, o, d, r)
           IN /\ Asked(out, d, r, UPDATE_ITEM)
              /\ Invoke("update_item",
                        [table_name |-> t, hash_key |-> hk, range_key |-> rk,
                         attribute_updates |-> au, expected |-> ex, opts |-> o,
                         describe |-> d, response |-> r], out)

DeleteItem ==
    /\ last.op = "idle"
    /\ \E t \in TableNames, hk \in HashKeys, rk \in RangeKeys,
          ex \in Expecteds, o \in Options, d \in DescribeResponses, r \in Responses :
           LET out == delete_item(_tables, t, hk, rk, ex, o, d, r)
           IN /\ Asked(out, d, r, DELETE_ITEM)
              /\ Invoke("delete_item",
                        [table_name |-> t, hash_key |-> hk, range_key |-> rk,
                         expected |-> ex, opts |-> o, describe |-> d, response |-> r], out)

PutItem ==
    /\ last.op = "idle"
    /\ \E t \in TableNames, hk \in HashKeys, rk \in RangeKeys, at \in Attributes,
          ex \in Expecteds, o \in Options, d \in DescribeResponses, r \in Responses :
           LET out == put_item(_tables, t, hk, rk, at, ex, o, d, r)
           IN /\ Asked(out, d, r, PUT_ITEM)
              /\ Invoke("put_item",
                        [table_name |-> t, hash_key |-> hk, range_key |-> rk,
                         attributes |-> at, expected |-> ex, opts |-> o,
                         describe |-> d, response |-> r], out)

\* the lists of at most n elements of S
SeqsUpTo(S, n) == UNION {[1..m -> S] : m \in 0..n}

KeySchemaArgs ==
    {None} \cup {Some(q) : q \in SeqsUpTo({[attribute_name |-> a, key_type |-> k] :
                                            a \in {"pk", "sk"},
                                            k \in {"HASH", "RANGE", "range"}},
                                          MaxKeySchema)}
AttributeDefinitionArgs ==
    {None, Some(<< >>),
     Some(<<[attribute_name |-> "pk", attribute_type |-> "S"],
            [attribute_name |-> "sk", attribute_type |-> "N"]>>)}
CapacityArgs == {None, Some(0), Some(5)}
IndexArgs ==
    {None, Some(<<[index_name |-> "ix", key_schema |-> <<KeyEntry("sk", HASH)>>,
                   projection |-> "ALL", provisioned_throughput |-> "pt",
                   read_capacity_units |-> 1, write_capacity_units |-> 1]>>)}

CreateTable ==
    /\ last.op = "idle"
    /\ \E t \in TableNames, ad \in AttributeDefinitionArgs, ks \in KeySchemaArgs,
          cu \in {None, Some(5)}, ix \in IndexArgs, r \in Responses :
           LET out == create_table(_tables, t, ad, ks, cu, cu, ix, ix, r)
           IN /\ Sent(out, CREATE_TABLE) \/ r = AnyResponse
              /\ Invoke("create_table",
                        [table_name |-> t, attribute_definitions |-> ad, key_schema |-> ks,
                         read_capacity_units |-> cu, write_capacity_units |-> cu,
                         global_secondary_indexes |-> ix, local_secondary_indexes |-> ix,
                         response |-> r], out)

UpdateTable ==
    /\ last.op = "idle"
    /\ \E t \in TableNames, rcu \in CapacityArgs, wcu \in CapacityArgs,
          ix \in IndexArgs, r \in Responses :
           LET out == update_table(_tables, t, rcu, wcu, ix, r)
           IN /\ Sent(out, UPDATE_TABLE) \/ r = AnyResponse
              /\ Invoke("update_table",
                        [table_name |-> t, read_capacity_units |-> rcu,
                         write_capacity_units |-> wcu,
                         global_secondary_index_updates |-> ix, response |-> r], out)

\* the items of a batch: one the caller has tagged, one raw
Items == {<<[key |-> "pk", tagged |-> TRUE, type |-> "S", value |-> "a"]>>,
          <<[key |-> "pk", tagged |-> FALSE, type |-> "", value |-> "b"]>>}
ItemLists == {None} \cup {Some(q) : q \in SeqsUpTo(Items, MaxItems)}
BatchOptions ==
    {o \in Options : o.return_values = None /\ o.return_item_collection_metrics = None}

BatchWriteItem ==
    /\ last.op = "idle"
    /\ \E t \in TableNames, pi \in ItemLists, di \in ItemLists, o \in BatchOptions,
          d \in DescribeResponses, r \in Responses :
           LET out == batch_write_item(_tables, t, pi, di, o, d, r)
           IN /\ Asked(out, d, r, BATCH_WRITE_ITEM)
              /\ Invoke("batch_write_item",
                        [table_name |-> t, put_items |-> pi, delete_items |-> di,
                         opts |-> o, describe |-> d, response |-> r], out)

\* attributes_to_get and consistent_read of get_item / batch_get_item
GetOptions ==
    { [attributes_to_get |-> None, consistent_read |-> FALSE],
      [attributes_to_get |-> Some(<<"pk">>), consistent_read |-> TRUE] }

GetItem ==
    /\ last.op = "idle"
    /\ \E t \in TableNames, hk \in HashKeys, rk \in RangeKeys, o \in GetOptions,
          d \in DescribeResponses, r \in Responses :
           LET out == get_item(_tables, t, hk, rk, o.consistent_read, o.attributes_to_get,
                               d, r)
           IN /\ Asked(out, d, r, GET_ITEM)
              /\ Invoke("get_item",
                        [table_name |-> t, hash_key |-> hk, range_key |-> rk, opts |-> o,
                         describe |-> d, response |-> r], out)

BatchGetItem ==
    /\ last.op = "idle"
    /\ \E t \in TableNames, ks \in SeqsUpTo(Items, MaxItems), o \in GetOptions,
          cc \in {None, Some("total"), Some("BOGUS")},
          d \in DescribeResponses, r \in Responses :
           LET out == batch_get_item(_tables, t, ks, Some(o.consistent_read), cc,
                                     o.attributes_to_get, d, r)
           IN /\ Asked(out, d, r, BATCH_GET_ITEM)
              /\ Invoke("batch_get_item",
                        [table_name |-> t, keys |-> ks, opts |-> o,
                         return_consumed_capacity |-> cc,
                         describe |-> d, response |-> r], out)

DeleteTable ==
    /\ last.op = "idle"
    /\ \E t \in TableNames, r \in Responses :
           Invoke("delete_table", [table_name |-> t, response |-> r],
                  delete_table(_tables, t, r))

ListTables ==
    /\ last.op = "idle"
    /\ \E start \in {None, Some("t1")}, limit \in {None, Some(0), Some(5)},
          r \in Responses :
           Invoke("list_tables",
                  [exclusive_start_table_name |-> start, limit |-> limit, response |-> r],
                  list_tables(_tables, start, limit, r))

\* the values a caller lists in a condition, and the value lists of at
\* most MaxValues of them
Values == <<"a", "b", "c", "d">>
ValueLists == {[i \in 1..n |-> Values[i]] : n \in 0..Min({MaxValues, Len(Values)})}

\* the key conditions / filter entries: a comparison that suits the
\* number of values, and one with an operator outside both enumerations
ConditionEntries ==
    {[key |-> k, operator |-> IF Len(v) = 1 THEN EQ ELSE "BETWEEN", values |-> v] :
        k \in {"pk", "sk"}, v \in ValueLists}
    \cup {[key |-> k, operator |-> "BOGUS", values |-> <<"a">>] : k \in {"pk", "sk"}}
Conditions == {None} \cup {Some(q) : q \in DistinctKeySeqs(ConditionEntries, 2)}

QueryOptions ==
    { [attributes_to_get |-> None, consistent_read |-> FALSE, exclusive_start_key |-> None,
       index_name |-> None, limit |-> None, return_consumed_capacity |-> None,
       select |-> None, scan_index_forward |-> None],
      [attributes_to_get |-> Some(<<"pk">>), consistent_read |-> TRUE,
       exclusive_start_key |-> Some("k"), index_name |-> Some("ix"), limit |-> Some(10),
       return_consumed_capacity |-> Some("total"), select |-> Some("count"),
       scan_index_forward |-> Some(FALSE)],
      [attributes_to_get |-> None, consistent_read |-> FALSE, exclusive_start_key |-> None,
       index_name |-> None, limit |-> None, return_consumed_capacity |-> None,
       select |-> Some("BOGUS"), scan_index_forward |-> None],
      [attributes_to_get |-> None, consistent_read |-> FALSE,
       exclusive_start_key |-> Some("k"), index_name |-> None, limit |-> None,
       return_consumed_capacity |-> Some("BOGUS"), select |-> None,
       scan_index_forward |-> None] }

Query ==
    /\ last.op = "idle"
    /\ \E t \in TableNames, hk \in HashKeys, o \in QueryOptions, kc \in Conditions,
          d \in DescribeResponses, r \in Responses :
           LET out == query(_tables, t, hk, o, kc, d, r)
           IN /\ Asked(out, d, r, QUERY)
              /\ Invoke("query",
                        [table_name |-> t, hash_key |-> hk, opts |-> o,
                         key_conditions |-> kc, describe |-> d, response |-> r], out)

ScanOptions ==
    { [attributes_to_get |-> None, limit |-> None, return_consumed_capacity |-> None,
       exclusive_start_key |-> None, segment |-> None, total_segments |-> None],
      [attributes_to_get |-> None, limit |-> None, return_consumed_capacity |-> None,
       exclusive_start_key |-> None, segment |-> Some(0), total_segments |-> Some(4)],
      [attributes_to_get |-> None, limit |-> None, return_consumed_capacity |-> None,
       exclusive_start_key |-> None, segment |-> Some(1), total_segments |-> Some(4)],
      [attributes_to_get |-> Some(<<"pk">>), limit |-> Some(10),
       return_consumed_capacity |-> Some("total"), exclusive_start_key |-> Some("k"),
       segment |-> Some(3), total_segments |-> Some(4)],
      [attributes_to_get |-> None, limit |-> None,
       return_consumed_capacity |-> Some("BOGUS"), exclusive_start_key |-> Some("k"),
       segment |-> None, total_segments |-> None] }

Scan ==
    /\ last.op = "idle"
    /\ \E t \in TableNames, o \in ScanOptions, sf \in Conditions,
          d \in DescribeResponses, r \in Responses :
           LET out == scan(_tables, t, o, sf, d, r)
           IN /\ Asked(out, d, r, SCAN)
              /\ Invoke("scan",
                        [table_name |-> t, opts |-> o, scan_filter |-> sf,
                         describe |-> d, response |-> r], out)

\* the schemas a caller wraps in a MetaTable of its own
KeySchemas == SeqsUpTo({KeyEntry(a, k) : a \in {"pk", "sk"}, k \in {HASH, RANGE}},
                       MaxKeySchema)

\* MetaTable(data)
NewMetaTable ==
    /\ last.op = "idle"
    /\ \E ks \in KeySchemas :
           /\ meta' = MetaTable([KeySchema |-> ks, AttributeDefinitions |-> << >>])
           /\ last' = [op |-> "MetaTable", args |-> [key_schema |-> ks]]
    /\ UNCHANGED <<_tables, calls, threads>>

\* meta.hash_keyname; memo is meta._hash_keyname as the access found it
HashKeyname ==
    /\ last.op = "idle"
    /\ meta' = hash_keyname(meta).self
    /\ last' = [op |-> "hash_keyname", memo |-> meta._hash_keyname,
                exc |-> None, ret |-> hash_keyname(meta).ret]
    /\ UNCHANGED <<_tables, calls, threads>>

\* meta.range_keyname
RangeKeyname ==
    /\ last.op = "idle"
    /\ meta' = range_keyname(meta).self
    /\ last' = [op |-> "range_keyname", memo |-> meta._range_keyname,
                exc |-> None, ret |-> range_keyname(meta).ret]
    /\ UNCHANGED <<_tables, calls, threads>>

----------------------------------------------------------------------------
(* get_meta_table step by step, run by several callers at once.  The      *)
(* interpreter runs one caller at a time and may switch callers between   *)
(* any two steps; a membership test, an assignment and a lookup on the    *)
(* dict are each one step.                                                *)

Callers == 1..MaxCallers

\* table_name not in self._tables or refresh
absent(tables, table_name, refresh) == table_name \notin DOMAIN tables \/ refresh

\* the mutant of store: the assignment is lost
store_dropped(tables, table_name, data) == tables

\* self._tables[table_name] = MetaTable(data.get(TABLE_KEY))
store(tables, table_name, data) == (table_name :> MetaTable(data)) @@ tables

\* a caller that is not inside get_meta_table
Outside ==
    [pc |-> "idle", table_name |-> "", refresh |-> FALSE, response |-> None,
     exc |-> None, ret |-> None]

\* a caller calls get_meta_table(table_name, refresh)
Enter ==
    \E c \in Callers, t \in TableNames, refresh \in BOOLEAN :
        /\ threads[c].pc = "idle"
        /\ threads' = [threads EXCEPT ![c] = [Outside EXCEPT !.pc = "check",
                                                             !.table_name = t,
                                                             !.refresh = refresh]]
        /\ UNCHANGED <<_tables, calls, last, meta>>

\* the test of the if statement
CheckAbsent ==
    \E c \in Callers :
        /\ threads[c].pc = "check"
        /\ threads' = [threads EXCEPT ![c].pc =
                          IF absent(_tables, threads[c].table_name, threads[c].refresh)
                          THEN "fetch" ELSE "read"]
        /\ UNCHANGED <<_tables, calls, last, meta>>

\* the DescribeTable call and the check of its response
Fetch ==
    \E c \in Callers, d \in DescribeResponses :
        /\ threads[c].pc = "fetch"
        /\ calls' = Append(calls, Call(DESCRIBE_TABLE,
                                       [table_name |-> threads[c].table_name]))
        /\ threads' = [threads EXCEPT ![c] =
              IF ~ok(d)
              THEN IF d.status = HTTP_BAD_REQUEST
                   THEN [@ EXCEPT !.pc = "done", !.response = Some(d)]
                   ELSE [@ EXCEPT !.pc = "done", !.response = Some(d),
                                  !.exc = Some(Err("TableError",
                                                   "Unable to describe table", {}))]
              ELSE [@ EXCEPT !.pc = "store", !.response = Some(d)]]
        /\ UNCHANGED <<_tables, last, meta>>

\* the assignment to the cache
Store ==
    \E c \in Callers :
        /\ threads[c].pc = "store"
        /\ _tables' = store(_tables, threads[c].table_name, threads[c].response[1].data)
        /\ threads' = [threads EXCEPT ![c].pc = "read"]
        /\ UNCHANGED <<calls, last, meta>>

\* return self._tables[table_name]: the entry is read again
ReadBack ==
    \E c \in Callers :
        /\ threads[c].pc = "read"
        /\ threads' = [threads EXCEPT ![c] =
              IF threads[c].table_name \in DOMAIN _tables
              THEN [@ EXCEPT !.pc = "done", !.ret = Some(_tables[threads[c].table_name])]
              ELSE [@ EXCEPT !.pc = "done", !.exc = Some(Err("KeyError", "", {}))]]
        /\ UNCHANGED <<_tables, calls, last, meta>>

Init ==
    /\ _tables = << >>
    /\ calls = << >>
    /\ last = Idle
    /\ meta = MetaTable(NoData)
    /\ threads = [c \in Callers |-> Outside]

Next ==
    \/ GetMetaTable
    \/ DescribeTable
    \/ UpdateItem
    \/ DeleteItem
    \/ PutItem
    \/ Return

Spec == Init /\ [][Next]_vars

\* the table operations, which never touch the metadata cache
NextTable ==
    \/ CreateTable
    \/ UpdateTable
    \/ Return

SpecTable == Init /\ [][NextTable]_vars

\* the batch write, on a cache that get_meta_table fills and refreshes
NextBatch ==
    \/ GetMetaTable
    \/ BatchWriteItem
    \/ Return

SpecBatch == Init /\ [][NextBatch]_vars

\* the accessors of a MetaTable a caller holds
NextMetaTable ==
    \/ NewMetaTable
    \/ HashKeyname
    \/ RangeKeyname
    \/ Return

SpecMetaTable == Init /\ [][NextMetaTable]_vars

\* query and scan, on a cache that get_meta_table fills and refreshes
NextQuery ==
    \/ GetMetaTable
    \/ Query
    \/ Scan
    \/ Return

SpecQuery == Init /\ [][NextQuery]_vars

\* every public operation of the connection
NextOps ==
    \/ GetMetaTable
    \/ DescribeTable
    \/ CreateTable
    \/ DeleteTable
    \/ UpdateTable
    \/ ListTables
    \/ GetItem
    \/ PutItem
    \/ UpdateItem
    \/ DeleteItem
    \/ BatchGetItem
    \/ BatchWriteItem
    \/ Query
    \/ Scan
    \/ Return

SpecOps == Init /\ [][NextOps]_vars

\* concurrent callers of get_meta_table on one connection, each one call
NextRace ==
    \/ Enter
    \/ CheckAbsent
    \/ Fetch
    \/ Store
    \/ ReadBack

SpecRace == Init /\ [][NextRace]_vars

----------------------------------------------------------------------------
(* Properties of the item operations and of the metadata cache *)

Failed(type) == last.exc # None /\ last.exc[1].type = type
DescribeCalls(log) == {i \in DOMAIN log : log[i].operation = DESCRIBE_TABLE}

\* C1 (as claimed): update_item with an empty or missing attribute_updates
\* always fails with a validation error and makes no transport call at
\* all, neither UpdateItem nor DescribeTable.
C1_EmptyUpdatesNoTransport ==
    (last.op = "update_item" /\ ~TruthySeq(last.args.attribute_updates))
        => (Failed("ValueError") /\ calls = << >>)

\* the enumerated options of last's arguments whose value is outside the
\* allowed set, each with the set a validation error would name
InvalidOptions ==
    LET o == last.args.opts
        ups == IF last.op = "update_item" /\ last.args.attribute_updates # None
               THEN last.args.attribute_updates[1] ELSE << >>
        outside(v, allowed) == v # None /\ v[1] \notin allowed /\ Upper(v[1]) \notin allowed
    IN (IF outside(o.return_values, RETURN_VALUES_VALUES)
        THEN {RETURN_VALUES_VALUES} ELSE {})
       \cup (IF outside(o.return_consumed_capacity, RETURN_CONSUMED_CAPACITY_VALUES)
             THEN {RETURN_CONSUMED_CAPACITY_VALUES} ELSE {})
       \cup (IF outside(o.return_item_collection_metrics, RETURN_ITEM_COLL_METRICS_VALUES)
             THEN {RETURN_ITEM_COLL_METRICS_VALUES} ELSE {})
       \cup (IF \E i \in DOMAIN ups : ups[i].action \notin ATTR_UPDATE_ACTIONS
             THEN {ATTR_UPDATE_ACTIONS} ELSE {})

OwnOperation ==
    CASE last.op = "update_item" -> UPDATE_ITEM
      [] last.op = "delete_item" -> DELETE_ITEM
      [] last.op = "put_item" -> PUT_ITEM

\* C2 (as claimed): an item operation given an enumerated option outside
\* its allowed set fails with a validation error naming the allowed set,
\* and its own request is never passed to the transport.
C2_InvalidOptionRejected ==
    (last.op \in {"update_item", "delete_item", "put_item"} /\ InvalidOptions # {})
        => /\ Failed("ValueError")
           /\ last.exc[1].allowed \in InvalidOptions
           /\ \A i \in DOMAIN calls : calls[i].operation # OwnOperation

\* C3: describe_table(T) always issues one fresh DescribeTable request for
\* T, cached or not; an ok response returns its metadata body, a response
\* with the bad-request status returns None without raising, any other
\* response that is not ok raises TableError.
C3_DescribeTable ==
    last.op = "describe_table" =>
        LET d == last.args.describe
        IN /\ calls = <<Call(DESCRIBE_TABLE, [table_name |-> last.args.table_name])>>
           /\ ok(d) => (last.exc = None /\ last.ret = Some(d.data))
           /\ (~ok(d) /\ d.status = HTTP_BAD_REQUEST) => (last.exc = None /\ last.ret = None)
           /\ (~ok(d) /\ d.status # HTTP_BAD_REQUEST) => Failed("TableError")

\* C3 witness: describe_table on a table that was cached, answered with
\* the bad-request status, has asked the transport and returned None.
C3_Witness ==
    /\ last.op = "describe_table"
    /\ last.args.table_name \in last.cached
    /\ last.args.describe.status = HTTP_BAD_REQUEST
    /\ Len(calls) = 1
    /\ last.exc = None /\ last.ret = None

\* C10: schemas are cached per table name.  In every invocation on table
\* T a DescribeTable request is for T and is issued only when T has no
\* entry or a refresh is requested (describe_table, or refresh=True); when
\* T has an entry and no refresh is requested no DescribeTable is issued,
\* the schema of the entry stays and get_meta_table returns the entry; a
\* refresh answered ok replaces the entry by a MetaTable of the new body;
\* the entries of other names are untouched and no entry is dropped.
C10_CachedPerTable ==
    [][(last.op = "idle" /\ last'.op # "idle") =>
        LET t == last'.args.table_name
            refresh == \/ last'.op = "describe_table"
                       \/ last'.op = "get_meta_table" /\ last'.args.refresh
        IN /\ \A i \in DescribeCalls(calls') :
                  /\ calls'[i].kwargs.table_name = t
                  /\ t \notin DOMAIN _tables \/ refresh
           /\ (t \in DOMAIN _tables /\ ~refresh) =>
                  /\ DescribeCalls(calls') = {}
                  /\ _tables'[t].data = _tables[t].data
                  /\ last'.op = "get_meta_table" =>
                        (calls' = << >> /\ last'.ret = Some(_tables[t]))
           /\ (refresh /\ ok(last'.args.describe)) =>
                  _tables'[t] = MetaTable(last'.args.describe.data)
           /\ DOMAIN _tables \subseteq DOMAIN _tables'
           /\ \A u \in DOMAIN _tables \ {t} : _tables'[u] = _tables[u]
      ]_vars

\* C10 witness: get_meta_table without refresh on a table that an earlier
\* operation fetched and used has returned the cached entry and asked the
\* transport nothing.
C10_Witness ==
    /\ last.op = "get_meta_table"
    /\ ~last.args.refresh
    /\ last.args.table_name \in last.cached
    /\ calls = << >>
    /\ last.ret = Some(_tables[last.args.table_name])
    /\ _tables[last.args.table_name]._hash_keyname # None

----------------------------------------------------------------------------
(* Properties of the table operations *)

\* the key_schema list of the CreateTable request of the last invocation
EmittedKeySchema == calls[1].kwargs.key_schema

Count(q, x) == Cardinality({i \in DOMAIN q : q[i] = x})

\* C4: whenever create_table sends its request, the key-schema entries of
\* the request are in ascending order of role name, so no RANGE entry
\* comes before a HASH entry, whatever the order of the caller's list; the
\* emitted list has the caller's entries, each as often as the caller gave
\* it (attribute name with its role in upper case), and no other.
C4_KeySchemaSorted ==
    (last.op = "create_table" /\ Sent([calls |-> calls], CREATE_TABLE)) =>
        LET given == [i \in DOMAIN last.args.key_schema[1] |->
                         KeyEntry(last.args.key_schema[1][i].attribute_name,
                                  Upper(last.args.key_schema[1][i].key_type))]
            sent == EmittedKeySchema
        IN /\ \A i, j \in DOMAIN sent :
                  i < j => /\ ~StrLess(sent[j].KeyType, sent[i].KeyType)
                           /\ ~(sent[i].KeyType = RANGE /\ sent[j].KeyType = HASH)
           /\ Len(sent) = Len(given)
           /\ \A i \in DOMAIN given : Count(sent, given[i]) = Count(given, given[i])
           /\ \A i \in DOMAIN sent : Count(given, sent[i]) > 0

\* C4 witness: the caller listed the RANGE key before the HASH key and the
\* request carries the HASH key first.
C4_Witness ==
    /\ last.op = "create_table"
    /\ last.args.key_schema = Some(<<[attribute_name |-> "sk", key_type |-> "range"],
                                     [attribute_name |-> "pk", key_type |-> "HASH"]>>)
    /\ Len(calls) = 1
    /\ EmittedKeySchema = <<KeyEntry("pk", HASH), KeyEntry("sk", RANGE)>>

\* C5 (as claimed): create_table fails with a validation error and sends
\* no CreateTable request whenever attribute_definitions or key_schema is
\* missing or empty.
C5_EmptySchemaRejected ==
    (/\ last.op = "create_table"
     /\ \/ ~TruthySeq(last.args.attribute_definitions)
        \/ ~TruthySeq(last.args.key_schema))
        => (Failed("ValueError") /\ calls = << >>)

\* C6 (as claimed): update_table fails with a validation error and sends
\* no request whenever exactly one of read_capacity_units and
\* write_capacity_units is supplied; with both supplied the request
\* carries a provisioned-throughput entry with both values; with neither
\* supplied it carries no such entry.
C6_ThroughputPair ==
    last.op = "update_table" =>
        LET read == last.args.read_capacity_units
            write == last.args.write_capacity_units
        IN /\ ((read = None) # (write = None)) => (Failed("ValueError") /\ calls = << >>)
           /\ (read # None /\ write # None) =>
                  /\ Len(calls) = 1
                  /\ "provisioned_throughput" \in DOMAIN calls[1].kwargs
                  /\ calls[1].kwargs.provisioned_throughput =
                        [ReadCapacityUnits |-> read[1], WriteCapacityUnits |-> write[1]]
           /\ (read = None /\ write = None) =>
                  /\ Len(calls) = 1
                  /\ "provisioned_throughput" \notin DOMAIN calls[1].kwargs

----------------------------------------------------------------------------
(* Properties of the batch write *)

\* C7 (as claimed): batch_write_item fails with a validation error and
\* sends no BatchWriteItem request unless put_items or delete_items is
\* non-empty.
C7_EmptyBatchRejected ==
    (/\ last.op = "batch_write_item"
     /\ ~TruthySeq(last.args.put_items)
     /\ ~TruthySeq(last.args.delete_items))
        => (Failed("ValueError") /\ ~Sent([calls |-> calls], BATCH_WRITE_ITEM))

\* the request list of the BatchWriteItem call of the last invocation
EmittedRequests == calls[Len(calls)].kwargs.request_items[last.args.table_name]

ListOf(o) == IF o = None THEN << >> ELSE o[1]

\* the attribute map the wire carries for a one-attribute item: the
\* caller's own tag, or the type the cached schema declares for a raw value
WireItem(item) ==
    LET declared == get_attribute_type(_tables[last.args.table_name], Some(item[1].key))
    IN item[1].key :> ((IF item[1].tagged THEN item[1].type ELSE declared.ret)
                          :> item[1].value)

\* C8: in the request list batch_write_item sends, the delete requests
\* come first, in the order of delete_items, then the put requests, in
\* the order of put_items; the list is as long as both lists together.
C8_DeletesBeforePuts ==
    (last.op = "batch_write_item" /\ Sent([calls |-> calls], BATCH_WRITE_ITEM)) =>
        LET dels == ListOf(last.args.delete_items)
            puts == ListOf(last.args.put_items)
            sent == EmittedRequests
        IN /\ Len(sent) = Len(dels) + Len(puts)
           /\ \A i \in DOMAIN dels :
                  sent[i] = (DELETE_REQUEST :> (KEY :> WireItem(dels[i])))
           /\ \A i \in DOMAIN puts :
                  sent[Len(dels) + i] = (PUT_REQUEST :> (ITEM :> WireItem(puts[i])))

\* C8 witness: a batch with two different delete items and a put item was
\* sent.
C8_Witness ==
    /\ last.op = "batch_write_item"
    /\ Sent([calls |-> calls], BATCH_WRITE_ITEM)
    /\ last.args.delete_items # None /\ Len(last.args.delete_items[1]) = 2
    /\ last.args.delete_items[1][1] # last.args.delete_items[1][2]
    /\ last.args.put_items # None /\ Len(last.args.put_items[1]) >= 1
    /\ DOMAIN EmittedRequests[1] = {DELETE_REQUEST}
    /\ DOMAIN EmittedRequests[3] = {PUT_REQUEST}

----------------------------------------------------------------------------
(* Properties of MetaTable *)

HashEntries(ks) == {i \in DOMAIN ks : ks[i].KeyType = HASH}

\* C9 (as claimed): for a schema with a HASH role the accessor returns
\* that attribute's name; for a schema with none it fails with a schema
\* error instead of returning an absent value.
C9_NoHashIsSchemaError ==
    last.op = "hash_keyname" =>
        IF HashEntries(meta.data.KeySchema) # {}
        THEN last.exc = None /\ last.ret # None
             /\ \E i \in HashEntries(meta.data.KeySchema) :
                    last.ret[1] = meta.data.KeySchema[i].AttributeName
        ELSE last.exc # None /\ last.exc[1].type = "SchemaError"

\* What the accessor does: for a schema with a HASH role it returns the
\* attribute name of the first HASH entry, on the first access and on
\* every later one; for a schema with no HASH role it raises nothing and
\* returns None, and the memo stays None.
HashKeynameOrNone ==
    last.op = "hash_keyname" =>
        LET ks == meta.data.KeySchema
        IN /\ last.exc = None
           /\ meta._hash_keyname = last.ret
           /\ IF HashEntries(ks) # {}
              THEN last.ret = Some(ks[Min(HashEntries(ks))].AttributeName)
              ELSE last.ret = None

\* a later access (the memo was set) on a schema with two HASH entries of
\* different names has returned the first one's name.
C9_LaterAccess ==
    /\ last.op = "hash_keyname"
    /\ last.memo # None
    /\ Cardinality({meta.data.KeySchema[i].AttributeName :
                        i \in HashEntries(meta.data.KeySchema)}) = 2
    /\ last.ret = Some(meta.data.KeySchema[1].AttributeName)

\* an access on a schema that has entries but no HASH entry has returned
\* None and raised nothing.
C9_NoHashReturnsNone ==
    /\ last.op = "hash_keyname"
    /\ meta.data.KeySchema # << >>
    /\ HashEntries(meta.data.KeySchema) = {}
    /\ last.ret = None /\ last.exc = None

----------------------------------------------------------------------------
(* Properties of concurrent callers of get_meta_table *)

\* the callers whose DescribeTable call for table t was answered ok
Successes(t) ==
    {c \in Callers : /\ threads[c].table_name = t
                     /\ threads[c].response # None
                     /\ ok(threads[c].response[1])}

\* the MetaTable built from the response caller c got
Built(c) == MetaTable(threads[c].response[1].data)

\* C11: when callers interleave the steps of get_meta_table on one
\* connection, the race only costs fetches: each caller sends at most one
\* DescribeTable, for its own table; a caller whose fetch succeeded ends
\* without error holding a schema built from a successful response for its
\* table (its own or another caller's); an entry of the cache is built
\* from a successful response for its name, and once every caller is done
\* a name some caller fetched successfully has such an entry.
C11_RaceOnlyRefetches ==
    /\ Len(calls) = Cardinality({c \in Callers : threads[c].response # None})
    /\ \A i \in DOMAIN calls :
           /\ calls[i].operation = DESCRIBE_TABLE
           /\ \E c \in Callers : /\ threads[c].response # None
                                  /\ calls[i].kwargs.table_name = threads[c].table_name
    /\ \A c \in Callers :
           (threads[c].pc = "done" /\ c \in Successes(threads[c].table_name)) =>
               /\ threads[c].exc = None
               /\ \E b \in Successes(threads[c].table_name) :
                      threads[c].ret = Some(Built(b))
    /\ \A t \in DOMAIN _tables : \E b \in Successes(t) : _tables[t] = Built(b)
    /\ \A t \in TableNames :
           (Successes(t) # {} /\ \A c \in Callers : threads[c].pc \in {"idle", "done"})
               => t \in DOMAIN _tables

\* C11 witness: two callers raced on one uncached name, both fetched it
\* and got different bodies; both are done, one holds the schema the other
\* stored, and the cache has the one entry.
C11_Witness ==
    \E a, b \in Callers :
        /\ a # b
        /\ threads[a].pc = "done" /\ threads[b].pc = "done"
        /\ threads[a].table_name = threads[b].table_name
        /\ ~threads[a].refresh /\ ~threads[b].refresh
        /\ a \in Successes(threads[a].table_name)
        /\ b \in Successes(threads[b].table_name)
        /\ Built(a) # Built(b)
        /\ threads[a].ret = Some(Built(b))
        /\ threads[b].ret = Some(Built(b))
        /\ DOMAIN _tables = {threads[a].table_name}
        /\ Len(calls) = 2

----------------------------------------------------------------------------
(* Properties of query and scan *)

\* the keyword arguments of the last transport call of the last invocation
EmittedKwargs == calls[Len(calls)].kwargs

\* the type the cached schema of the last invocation's table declares
Declared(attribute_name) ==
    get_attribute_type(_tables[last.args.table_name], Some(attribute_name)).ret

\* the name of the hash key of the last invocation's table
TableHashKey ==
    LET ks == _tables[last.args.table_name].data.KeySchema
    IN ks[Min(HashEntries(ks))].AttributeName

\* C12: the key-conditions map of every Query request has an entry for
\* the table's hash key and one for each key the caller gave a condition
\* for, and no other.  Without a caller condition for the hash key its
\* entry is the EQ comparison on the one value hash_key, tagged with the
\* declared type of the hash key.  Each caller condition is there under
\* its key with the caller's operator and values of the caller only, so a
\* caller condition for the hash key has replaced the EQ on hash_key.
C12_HashKeyCondition ==
    (last.op = "query" /\ Sent([calls |-> calls], QUERY)) =>
        LET given == ListOf(last.args.key_conditions)
            keys == {given[i].key : i \in DOMAIN given}
            sent == EmittedKwargs.key_conditions
        IN /\ DOMAIN sent = {TableHashKey} \cup keys
           /\ TableHashKey \notin keys =>
                  sent[TableHashKey] =
                      [AttributeValueList |->
                           <<(Declared(TableHashKey) :> last.args.hash_key)>>,
                       ComparisonOperator |-> EQ]
           /\ \A i \in DOMAIN given :
                  /\ sent[given[i].key].ComparisonOperator = given[i].operator
                  /\ \A j \in DOMAIN sent[given[i].key].AttributeValueList :
                         \A ty \in DOMAIN sent[given[i].key].AttributeValueList[j] :
                             /\ ty = Declared(given[i].key)
                             /\ \E n \in DOMAIN given[i].values :
                                    sent[given[i].key].AttributeValueList[j][ty]
                                        = given[i].values[n]

\* C12 witness: a query whose caller gave a condition for the hash key and
\* one for the range key was sent; the entry of the hash key carries the
\* caller's operator.
C12_Witness ==
    /\ last.op = "query"
    /\ Sent([calls |-> calls], QUERY)
    /\ {ListOf(last.args.key_conditions)[i].key :
            i \in DOMAIN ListOf(last.args.key_conditions)} = {"pk", "sk"}
    /\ TableHashKey = "pk"
    /\ DOMAIN EmittedKwargs.key_conditions = {"pk", "sk"}
    /\ EmittedKwargs.key_conditions["pk"].ComparisonOperator = "BETWEEN"

\* the conditions the caller of the last invocation gave, and the map
\* the request carries for them
GivenConditions ==
    IF last.op = "query" THEN ListOf(last.args.key_conditions)
    ELSE ListOf(last.args.scan_filter)
EmittedConditions ==
    IF last.op = "query" THEN EmittedKwargs.key_conditions
    ELSE EmittedKwargs.scan_filter

\* C14 (as claimed): for every key condition of a query and every filter
\* entry of a scan that was sent, the emitted attribute-value list has as
\* many entries as the caller's value list, the i-th being the caller's
\* i-th value tagged with the declared type of the attribute.
C14_ValueListPreserved ==
    (/\ last.op \in {"query", "scan"}
     /\ Sent([calls |-> calls], IF last.op = "query" THEN QUERY ELSE SCAN)) =>
        \A i \in DOMAIN GivenConditions :
            LET values == GivenConditions[i].values
                emitted == EmittedConditions[GivenConditions[i].key].AttributeValueList
            IN /\ Len(emitted) = Len(values)
               /\ \A j \in DOMAIN values :
                      emitted[j] = (Declared(GivenConditions[i].key) :> values[j])

\* C15 (as claimed): a scan given segment and total_segments carries both
\* unchanged in its request, segment 0 included; a scan given neither
\* carries neither.
C15_SegmentsCarried ==
    (last.op = "scan" /\ Sent([calls |-> calls], SCAN)) =>
        LET o == last.args.opts
        IN /\ (o.segment # None /\ o.total_segments # None) =>
                  /\ "segment" \in DOMAIN EmittedKwargs
                  /\ "total_segments" \in DOMAIN EmittedKwargs
                  /\ EmittedKwargs.segment = o.segment[1]
                  /\ EmittedKwargs.total_segments = o.total_segments[1]
           /\ (o.segment = None /\ o.total_segments = None) =>
                  /\ "segment" \notin DOMAIN EmittedKwargs
                  /\ "total_segments" \notin DOMAIN EmittedKwargs

----------------------------------------------------------------------------
(* Properties of every operation *)

\* the request of the operation of the last invocation
OwnRequest ==
    CASE last.op \in {"get_meta_table", "describe_table"} -> DESCRIBE_TABLE
      [] last.op = "create_table" -> CREATE_TABLE
      [] last.op = "delete_table" -> DELETE_TABLE
      [] last.op = "update_table" -> UPDATE_TABLE
      [] last.op = "list_tables" -> LIST_TABLES
      [] last.op = "get_item" -> GET_ITEM
      [] last.op = "put_item" -> PUT_ITEM
      [] last.op = "update_item" -> UPDATE_ITEM
      [] last.op = "delete_item" -> DELETE_ITEM
      [] last.op = "batch_get_item" -> BATCH_GET_ITEM
      [] last.op = "batch_write_item" -> BATCH_WRITE_ITEM
      [] last.op = "query" -> QUERY
      [] last.op = "scan" -> SCAN

\* the error type the operation of the last invocation raises for a
\* request of its own that failed
OwnError ==
    CASE last.op \in {"get_meta_table", "describe_table", "create_table", "delete_table",
                      "update_table", "list_tables"} -> "TableError"
      [] last.op \in {"get_item", "batch_get_item"} -> "GetError"
      [] last.op \in {"put_item", "batch_write_item"} -> "PutError"
      [] last.op = "update_item" -> "UpdateError"
      [] last.op = "delete_item" -> "DeleteError"
      [] last.op = "query" -> "QueryError"
      [] last.op = "scan" -> "ScanError"

\* the transport's answer to the own request of the last invocation
OwnResponse ==
    IF OwnRequest = DESCRIBE_TABLE THEN last.args.describe ELSE last.args.response

OwnCalls == {i \in DOMAIN calls : calls[i].operation = OwnRequest}

\* C13 (as claimed): every invocation passes its own operation's request
\* to the transport at most once, and when the response to it is not ok
\* the invocation raises the operation's typed error, the request being
\* its last transport call.
C13_NotOkRaises ==
    last.op # "idle" =>
        /\ Cardinality(OwnCalls) <= 1
        /\ (OwnCalls # {} /\ ~ok(OwnResponse)) =>
               /\ Failed(OwnError)
               /\ OwnCalls = {Len(calls)}

\* C13 (amended): every invocation passes its own operation's request to
\* the transport at most once, as its last transport call, and makes at
\* most one DescribeTable call before it; when the response to the own
\* request is not ok the invocation raises the operation's typed error,
\* except that get_meta_table and describe_table return None, raising
\* nothing, when DescribeTable is answered with the bad-request status;
\* a metadata lookup answered not ok ends the invocation with an error
\* and the own request is not sent.
C13_SingleRoundTrip ==
    last.op # "idle" =>
        /\ Cardinality(OwnCalls) <= 1
        /\ OwnCalls \subseteq {Len(calls)}
        /\ Cardinality(DescribeCalls(calls)) <= 1
        /\ (OwnCalls # {} /\ ~ok(OwnResponse)) =>
               IF OwnRequest = DESCRIBE_TABLE /\ OwnResponse.status = HTTP_BAD_REQUEST
               THEN last.exc = None /\ last.ret = None
               ELSE Failed(OwnError)
        /\ (/\ OwnRequest # DESCRIBE_TABLE
            /\ DescribeCalls(calls) # {}
            /\ ~ok(last.args.describe)) =>
               (last.exc # None /\ OwnCalls = {})

\* C13 witness: delete_item on a table that was not cached fetched the
\* metadata, sent DeleteItem once, was answered not ok and raised
\* DeleteError.
C13_Witness ==
    /\ last.op = "delete_item"
    /\ Len(calls) = 2
    /\ calls[1].operation = DESCRIBE_TABLE
    /\ calls[2].operation = DELETE_ITEM
    /\ ~ok(last.args.response)
    /\ Failed("DeleteError")

----------------------------------------------------------------------------
(* The cache after a fetch that failed *)

\* C16: an invocation whose DescribeTable call is answered not ok leaves
\* the cache as it was: the same names, each with the schema it had, the
\* one of the table asked about included; get_meta_table and
\* describe_table return None for the bad-request status and raise
\* TableError for any other.
C16_FailedFetchKeepsCache ==
    [][(/\ last.op = "idle"
        /\ last'.op # "idle"
        /\ DescribeCalls(calls') # {}
        /\ ~ok(last'.args.describe)) =>
           /\ _tables' = _tables
           /\ last'.op \in {"get_meta_table", "describe_table"} =>
                  IF last'.args.describe.status = HTTP_BAD_REQUEST
                  THEN last'.exc = None /\ last'.ret = None
                  ELSE last'.exc # None /\ last'.exc[1].type = "TableError"
      ]_vars

\* C16 witness: a refresh of a table whose cached schema an earlier
\* operation had used was answered with a status that is neither ok nor
\* bad-request; TableError was raised and the entry is still there.
C16_Witness ==
    /\ last.op \in {"get_meta_table", "describe_table"}
    /\ Len(calls) = 1
    /\ ~ok(last.args.describe)
    /\ last.args.describe.status # HTTP_BAD_REQUEST
    /\ Failed("TableError")
    /\ last.args.table_name \in last.cached
    /\ last.cached = DOMAIN _tables
    /\ _tables[last.args.table_name]._hash_keyname # None

====
